---- MODULE Spec2Model ----
(***************************************************************************)
(* The three lattice commands of the add-in (isogrid, hexgrid and the      *)
(* honeycomb command of commandDialog) as one state machine.  The host's   *)
(* geometry kernel is the environment: the selected face, the answers of   *)
(* isPointOnFace, the profiles of the sketch, the body's edges and the     *)
(* failure of any host call are chosen nondeterministically.               *)
(*                                                                         *)
(* Coordinates are Python floats in the code.  The model computes them     *)
(* exactly in the field Q(sqrt 3): the number (a + b*sqrt(3))/d is the      *)
(* triple <<a, b, d>> with d > 0 in lowest terms.  Every coordinate the    *)
(* lattice code produces from rational inputs lies in that field.          *)
(***************************************************************************)
EXTENDS Integers, Sequences, FiniteSets, TLC

(***************************************************************************)
(* Exact arithmetic in Q(sqrt 3)                                           *)
(***************************************************************************)
AbsInt(n) == IF n < 0 THEN -n ELSE n

RECURSIVE Gcd(_, _)
Gcd(m, n) == IF n = 0 THEN m ELSE Gcd(n, m % n)

RECURSIVE ISqrtBetween(_, _, _)
\* the largest k in lo..hi with k*k <= n (binary search)
ISqrtBetween(n, lo, hi) ==
  IF lo >= hi THEN lo
  ELSE LET mid == (lo + hi + 1) \div 2
       IN IF mid * mid <= n THEN ISqrtBetween(n, mid, hi)
                            ELSE ISqrtBetween(n, lo, mid - 1)

ISqrt(n) == ISqrtBetween(n, 0, IF n < 46340 THEN n ELSE 46340)

IsSquare(n) == n >= 0 /\ ISqrt(n) * ISqrt(n) = n

Norm(a, b, d) ==
  LET s == IF d < 0 THEN -1 ELSE 1
      g == Gcd(Gcd(AbsInt(a), AbsInt(b)), AbsInt(d))
  IN <<(s * a) \div g, (s * b) \div g, (s * d) \div g>>

Num(n) == <<n, 0, 1>>
Frac(n, d) == Norm(n, 0, d)
Zero == Num(0)
Root3 == <<0, 1, 1>>

\* over the least common denominator, so that the tolerance 1e-6 fits the integers
Add(u, v) ==
  LET g == Gcd(u[3], v[3])
      mu == v[3] \div g
      mv == u[3] \div g
  IN Norm(u[1] * mu + v[1] * mv, u[2] * mu + v[2] * mv, u[3] * mu)
Neg(u) == <<-u[1], -u[2], u[3]>>
Sub(u, v) == Add(u, Neg(v))
Mul(u, v) == Norm(u[1] * v[1] + 3 * u[2] * v[2], u[1] * v[2] + u[2] * v[1], u[3] * v[3])
\* u / v for v # 0: multiply by the conjugate of v
Div(u, v) ==
  LET n == v[1] * v[1] - 3 * v[2] * v[2]
      p == u[1] * v[1] - 3 * u[2] * v[2]
      q == u[2] * v[1] - u[1] * v[2]
  IN Norm(p * v[3], q * v[3], u[3] * n)

RECURSIVE GreaterRoot3(_, _)
\* a > b*sqrt(3) for integers a, b >= 0, by the continued fraction of sqrt(3)
\* (no squares, so that large numerators do not overflow)
GreaterRoot3(a, b) ==
  IF b = 0 THEN a > 0
  ELSE IF a >= 2 * b THEN TRUE
  ELSE IF a <= b THEN FALSE
  ELSE ~GreaterRoot3(2 * b - (a - b), a - b)

\* the sign of a + b*sqrt(3), decided in the integers
Sign(u) ==
  LET a == u[1]
      b == u[2]
  IN IF a = 0 /\ b = 0 THEN 0
     ELSE IF a >= 0 /\ b >= 0 THEN 1
     ELSE IF a <= 0 /\ b <= 0 THEN -1
     ELSE IF a > 0 THEN (IF GreaterRoot3(a, -b) THEN 1 ELSE -1)
     ELSE (IF GreaterRoot3(-a, b) THEN -1 ELSE 1)

Less(u, v) == Sign(Sub(u, v)) < 0
Leq(u, v) == Sign(Sub(u, v)) <= 0
Abs(u) == IF Sign(u) < 0 THEN Neg(u) ELSE u
Sq(u) == Mul(u, u)
Half(u) == Div(u, Num(2))

\* floor(b * sqrt(3)) for an integer b
FloorRoot3(b) == IF b >= 0 THEN ISqrt(3 * b * b) ELSE -(ISqrt(3 * b * b) + 1)

\* math.floor
Floor(u) ==
  LET n == u[1] + FloorRoot3(u[2])
  IN IF n >= 0 THEN n \div u[3] ELSE -((-n + u[3] - 1) \div u[3])

\* Python's float %: u - floor(u / v) * v
Mod(u, v) == Sub(u, Mul(Num(Floor(Div(u, v))), v))

\* the square root of u >= 0: exact where it lies in the field (every length
\* of the lattice does), rounded down to 1/100 elsewhere
Sqrt(u) ==
  LET a == u[1]
      d == u[3]
  IN IF u[2] = 0 /\ IsSquare(a * d) THEN Norm(ISqrt(a * d), 0, d)
     ELSE IF u[2] = 0 /\ IsSquare(3 * a * d) THEN Norm(0, ISqrt(3 * a * d), 3 * d)
     ELSE Frac(ISqrt(Floor(Mul(u, Num(10000)))), 100)

(***************************************************************************)
(* Points and vectors of the sketch plane: <<x, y>>                        *)
(***************************************************************************)
None == <<>>

PAdd(p, q) == <<Add(p[1], q[1]), Add(p[2], q[2])>>
PSub(p, q) == <<Sub(p[1], q[1]), Sub(p[2], q[2])>>
Dot(p, q) == Add(Mul(p[1], q[1]), Mul(p[2], q[2]))
Cross(p, q) == Sub(Mul(p[1], q[2]), Mul(p[2], q[1]))
Dist2(p, q) == Dot(PSub(p, q), PSub(p, q))

(***************************************************************************)
(* The host: the selected face and its body.  A face is a region of the    *)
(* model's XY plane inside its bounding box; the sketch created on it has  *)
(* its own origin, so the two coordinate spaces differ by a translation.   *)
(***************************************************************************)
MaxBox == 6

BoxSizes == {1, MaxBox - 2, MaxBox}
FaceShapes == {"rect", "notch", "window", "disc"}
\* the sketch origin in model space
SketchOrigins == {<<Num(3), Num(-1)>>}

Faces ==
  [shape : FaceShapes, w : BoxSizes, h : BoxSizes, origin : SketchOrigins]

\* BRepFace.boundingBox, in model space
boundingBox(face) ==
  [minPoint |-> face.origin,
   maxPoint |-> PAdd(face.origin, <<Num(face.w), Num(face.h)>>)]

modelToSketchSpace(face, p) == PSub(p, face.origin)
sketchToModelSpace(face, p) == PAdd(p, face.origin)

InBox(p, lo, hi) ==
  /\ Leq(lo[1], p[1]) /\ Leq(p[1], hi[1])
  /\ Leq(lo[2], p[2]) /\ Leq(p[2], hi[2])

StrictlyInBox(p, lo, hi) ==
  /\ Less(lo[1], p[1]) /\ Less(p[1], hi[1])
  /\ Less(lo[2], p[2]) /\ Less(p[2], hi[2])

\* BRepFace.isPointOnFace for a point of model space: the face is its bounding
\* rectangle ("rect"), the rectangle without its upper right quarter ("notch"),
\* the rectangle with a window cut out of its middle ("window"), or the ellipse
\* inscribed in the rectangle ("disc")
isPointOnFace(face, p) ==
  LET bb == boundingBox(face)
      lo == bb.minPoint
      hi == bb.maxPoint
      w == Num(face.w)
      h == Num(face.h)
      mid == PAdd(lo, <<Half(w), Half(h)>>)
      q1 == PAdd(lo, <<Div(w, Num(4)), Div(h, Num(4))>>)
      q3 == PAdd(lo, <<Div(Mul(Num(3), w), Num(4)), Div(Mul(Num(3), h), Num(4))>>)
      d == PSub(p, mid)
  IN /\ InBox(p, lo, hi)
     /\ CASE face.shape = "rect" -> TRUE
          [] face.shape = "notch" -> ~(Less(mid[1], p[1]) /\ Less(mid[2], p[2]))
          [] face.shape = "window" -> ~StrictlyInBox(p, q1, q3)
          [] face.shape = "disc" ->
               Leq(Add(Mul(Sq(d[1]), Sq(h)), Mul(Sq(d[2]), Sq(w))),
                   Div(Mul(Sq(w), Sq(h)), Num(4)))


\* a point of space: <<x, y, z>>; the selected face lies in the plane z = 0
\* and the body extends one unit below it
Vertical(p) == [startVertex |-> <<p[1], p[2], Zero>>, endVertex |-> <<p[1], p[2], Num(-1)>>]
TopEdge(p, q) == [startVertex |-> <<p[1], p[2], Zero>>, endVertex |-> <<q[1], q[2], Zero>>]
Closed(p, z) == [startVertex |-> <<p[1], p[2], z>>, endVertex |-> <<p[1], p[2], z>>]

\* BRepBody.edges of the body the face belongs to, before any feature is
\* added: a prism under a polygonal face, a cylinder under a disc (its two
\* circular edges start and end in the same vertex)
bodyEdges(face) ==
  LET bb == boundingBox(face)
      lo == bb.minPoint
      hi == bb.maxPoint
      a == lo
      b == <<hi[1], lo[2]>>
      c == hi
      d == <<lo[1], hi[2]>>
      mid == PAdd(lo, <<Half(Num(face.w)), Half(Num(face.h))>>)
  IN CASE face.shape = "disc" -> <<Closed(mid, Zero), Closed(mid, Num(-1))>>
       [] face.shape = "notch" ->
            <<Vertical(a), Vertical(b), Vertical(c), Vertical(d), Vertical(mid),
              TopEdge(a, b), TopEdge(d, a)>>
       [] OTHER ->
            <<Vertical(a), Vertical(b), Vertical(c), Vertical(d),
              TopEdge(a, b), TopEdge(b, c), TopEdge(c, d), TopEdge(d, a)>>

\* the curves of the sketch's profile loops right after the sketch is created
\* on the face (the face's outline, in sketch space), each with its
\* geometry's startPoint and endPoint
outlineCurves(face) ==
  LET w == Num(face.w)
      h == Num(face.h)
      a == <<Zero, Zero>>
      b == <<w, Zero>>
      c == <<w, h>>
      d == <<Zero, h>>
  IN IF face.shape = "notch"
     THEN <<<<a, b>>, <<b, <<w, Half(h)>>>>, <<<<w, Half(h)>>, <<Half(w), Half(h)>>>>,
            <<<<Half(w), Half(h)>>, <<Half(w), h>>>>, <<<<Half(w), h>>, d>>, <<d, a>>>>
     ELSE <<<<a, b>>, <<b, c>>, <<c, d>>, <<d, a>>>>

(***************************************************************************)
(* The lattice arithmetic of the commands                                  *)
(***************************************************************************)
\* size_input * math.sqrt(3) / 2: the distance between two rows of the grid
RowStep(size_input) == Div(Mul(size_input, Root3), Num(2))

grid_width_of(min_point, max_point, size_input) ==
  Floor(Div(Sub(max_point[1], min_point[1]), size_input)) + 1

grid_height_of(min_point, max_point, size_input) ==
  Floor(Div(Sub(max_point[2], min_point[2]), RowStep(size_input))) + 1

\* the candidate point of grid index (x, y), in sketch space
GridPoint(min_point, max_point, size_input, x, y) ==
  <<Add(Add(Add(min_point[1], Mul(Num(x), size_input)),
            Half(Mod(Sub(max_point[1], min_point[1]), size_input))),
        Half(Mul(Num(y % 2), size_input))),
    Add(Add(min_point[2], Mul(Num(y), RowStep(size_input))),
        Half(Mod(Sub(max_point[2], min_point[2]), RowStep(size_input))))>>

\* CellTriangles without the branch on y % 2
CellTrianglesUnstaggered(x, y) ==
  << << <<x, y>>, <<x + 1, y>>, <<x, y + 1>> >>,
     << <<x + 1, y>>, <<x + 1, y + 1>>, <<x, y + 1>> >> >>

\* the two triangles of grid cell (x, y), as the grid indices of their
\* vertices in the order the code passes them
CellTriangles(x, y) ==
  IF y % 2 = 1
  THEN << << <<x, y>>, <<x + 1, y>>, <<x + 1, y + 1>> >>,
          << <<x, y>>, <<x + 1, y + 1>>, <<x, y + 1>> >> >>
  ELSE << << <<x, y>>, <<x + 1, y>>, <<x, y + 1>> >>,
          << <<x + 1, y>>, <<x + 1, y + 1>>, <<x, y + 1>> >> >>

Centroid(p1, p2, p3) ==
  <<Div(Add(Add(p1[1], p2[1]), p3[1]), Num(3)),
    Div(Add(Add(p1[2], p2[2]), p3[2]), Num(3))>>

\* ShrinkTowards without the division by length
ShrinkUnnormalised(pt, centroid, thickness) ==
  <<Add(pt[1], Mul(Sub(centroid[1], pt[1]), thickness)),
    Add(pt[2], Mul(Sub(centroid[2], pt[2]), thickness))>>

\* isogrid: one vertex moved towards the centroid by thickness
ShrinkTowards(pt, centroid, thickness) ==
  LET dx == Sub(centroid[1], pt[1])
      dy == Sub(centroid[2], pt[2])
      length == Sqrt(Add(Sq(dx), Sq(dy)))
  IN IF length = Zero THEN pt
     ELSE <<Add(pt[1], Mul(Div(dx, length), thickness)),
            Add(pt[2], Mul(Div(dy, length), thickness))>>

\* isogrid: the three new points of draw_shrunken_triangle
new_points(p1, p2, p3, thickness) ==
  LET c == Centroid(p1, p2, p3)
  IN <<ShrinkTowards(p1, c, thickness), ShrinkTowards(p2, c, thickness),
       ShrinkTowards(p3, c, thickness)>>

\* Vector3D.normalize: the zero vector is left as it is
normalize(v) ==
  LET length == Sqrt(Add(Sq(v[1]), Sq(v[2])))
  IN IF length = Zero THEN v ELSE <<Div(v[1], length), Div(v[2], length)>>

\* shrink_point moving each vertex by thickness / 2
shrink_point_half(point, centroid, thickness) ==
  LET direction_vector == normalize(PSub(centroid, point))
  IN <<Add(point[1], Mul(direction_vector[1], Half(thickness))),
       Add(point[2], Mul(direction_vector[2], Half(thickness)))>>

\* hexgrid: shrink_point
shrink_point(point, centroid, thickness) ==
  LET direction_vector == normalize(PSub(centroid, point))
  IN <<Add(point[1], Mul(direction_vector[1], thickness)),
       Add(point[2], Mul(direction_vector[2], thickness))>>

\* hexgrid: create_shrunken_triangle
create_shrunken_triangle(p1, p2, p3, thickness) ==
  LET c == Centroid(p1, p2, p3)
  IN <<shrink_point(p1, c, thickness), shrink_point(p2, c, thickness),
       shrink_point(p3, c, thickness)>>

\* the three addByTwoPoints calls that draw a triangle
TriangleLines(n) == << <<n[1], n[2]>>, <<n[2], n[3]>>, <<n[3], n[1]>> >>

\* the shoelace formula
Shoelace(n) ==
  Half(Abs(Add(Add(Mul(n[1][1], Sub(n[2][2], n[3][2])),
                   Mul(n[2][1], Sub(n[3][2], n[1][2]))),
               Mul(n[3][1], Sub(n[1][2], n[2][2])))))

\* hexgrid: calculate_triangle_area
calculate_triangle_area(p1, p2, p3, thickness) ==
  Shoelace(create_shrunken_triangle(p1, p2, p3, thickness))

\* the closed form without its thickness-squared term
closed_form_area_linear(size_input, thickness_input) ==
  Sub(Div(Mul(Root3, Sq(size_input)), Num(4)),
      Div(Mul(Mul(Num(3), size_input), thickness_input), Num(2)))

\* isogrid: the closed form of the shrunken triangle's area
closed_form_area(size_input, thickness_input) ==
  Sub(Add(Div(Mul(Root3, Sq(size_input)), Num(4)),
          Div(Mul(Mul(Num(3), Root3), Sq(thickness_input)), Num(4))),
      Div(Mul(Mul(Num(3), size_input), thickness_input), Num(2)))

\* the tolerance 1e-6 of the area comparison and of the vertical-edge test
Tolerance == Frac(1, 1000000)

\* AreaMatches without abs
AreaMatchesNoAbs(area, triangle_area) == Less(Sub(area, triangle_area), Tolerance)

\* abs(area - triangle_area) < 1e-6
AreaMatches(area, triangle_area) == Less(Abs(Sub(area, triangle_area)), Tolerance)

\* honeycomb: the six corners p1..p6 of the hexagon at (current_x, current_y)
HexagonPoints(current_x, current_y, size_input) ==
  LET s == size_input
      hs == Half(s)
      s15 == Div(Mul(s, Num(3)), Num(2))
      up == Mul(s, Root3)
      hup == Half(up)
  IN << <<Add(current_x, hs), current_y>>,
        <<Add(current_x, s15), current_y>>,
        <<Add(current_x, Mul(s, Num(2))), Add(current_y, hup)>>,
        <<Add(current_x, s15), Add(current_y, up)>>,
        <<Add(current_x, hs), Add(current_y, up)>>,
        <<current_x, Add(current_y, hup)>> >>

HexagonLines(h) ==
  << <<h[1], h[2]>>, <<h[2], h[3]>>, <<h[3], h[4]>>, <<h[4], h[5]>>, <<h[5], h[6]>>,
     <<h[6], h[1]>> >>

\* honeycomb: hex_area
hex_area_of(size_input) == Div(Mul(Mul(Num(3), Root3), Sq(size_input)), Num(2))

\* honeycomb: where a row starts
RowStartX(min_x, row_index, size_input, thickness_input) ==
  IF row_index % 2 = 1
  THEN Add(min_x, Add(Div(Mul(size_input, Num(3)), Num(2)), Half(thickness_input)))
  ELSE min_x

NextColumnX(current_x, size_input, thickness_input) ==
  Add(current_x, Add(Mul(size_input, Num(3)), thickness_input))

NextRowY(current_y, size_input, thickness_input) ==
  Add(current_y, Add(RowStep(size_input), thickness_input))


(***************************************************************************)
(* The commands                                                            *)
(***************************************************************************)
Commands == {"isogrid", "hexgrid", "commandDialog"}
TriangleCommands == {"isogrid", "hexgrid"}

\* CreatedIds without the hole size input
CreatedIdsWithoutHoleSize(c) ==
  {"thickness_input", "size_input", "height_input", "fillet_radius_input", "face_selection"}

\* the ids command_created adds to the dialog
CreatedIds(c) ==
  IF c = "isogrid"
  THEN {"thickness_input", "size_input", "height_input", "fillet_radius_input",
        "hole_size_input", "face_selection"}
  ELSE {"thickness_input", "size_input", "height_input", "fillet_radius_input",
        "face_selection"}

\* the ids command_execute asks itemById for
ExecIds(c) ==
  IF c = "isogrid"
  THEN {"thickness_input", "size_input", "height_input", "fillet_radius_input",
        "hole_size_input", "face_selection"}
  ELSE {"thickness_input", "size_input", "height_input", "fillet_radius_input",
        "face_selection"}

\* selection_input.setSelectionLimits(1, 1)
SelectionLimits(c) == <<1, 1>>

\* the values the user can leave in the dialog when the command executes
UserInputs(c) ==
  [thickness_input : {Num(1), Num(2)},
   size_input : IF c = "commandDialog" THEN {Num(1), Num(2), Num(3)}
                                           ELSE {Num(2), Num(3)},
   height_input : {Num(5)},
   fillet_radius_input : {Frac(1, 2)},
   hole_size_input : IF c = "isogrid" THEN {Frac(1, 4)} ELSE {Zero}]

NoInputs ==
  [thickness_input |-> Zero, size_input |-> Zero, height_input |-> Zero,
   fillet_radius_input |-> Zero, hole_size_input |-> Zero]

NoFace == [shape |-> "none", w |-> 0, h |-> 0, origin |-> <<Zero, Zero>>]

\* the faces the user can select for a command (the honeycomb command reads
\* the start and end point of every outline curve, which a disc's outline
\* does not have)
SelectableFaces(c) ==
  IF c = "commandDialog" THEN {f \in Faces : f.shape # "disc"} ELSE Faces

VARIABLES
  cmd,                \* the command whose dialog is open
  pc,                 \* where the command is
  defined,            \* the ids of the dialog's inputs
  limits,             \* the selection limits of face_selection
  nsel,               \* how many faces are selected
  face,               \* the selected face
  inp,                \* the values of the dialog's inputs
  read,               \* the ids command_execute has read
  sketches,           \* how many sketches the design holds
  min_point, max_point,
  grid_width, grid_height,
  point_grid,         \* grid index -> 0 (None) or a sketch point's index
  sketchPoints,       \* sketch.sketchPoints, in the order added
  hole_points,
  sketchLines,        \* sketch.sketchCurves.sketchLines, in the order added
  sketchArcs,         \* how many fillet arcs the sketch holds
  drawn,              \* per cell drawn: the grid vertices (triangles) or the corners (hexagons)
  triangle_area,
  profiles,           \* sketch.profiles as the host computed them
  combined_profiles,  \* the profiles handed to the cut extrude
  edges,
  features,           \* the timeline: the features added to the design
  dialog,             \* the message box shown
  escaped,            \* an exception left command_execute
  x, y,               \* the loop indices
  current_x, current_y, row_index

uiVars == <<cmd, defined, limits, nsel, face, inp, read>>
gridVars == <<min_point, max_point, grid_width, grid_height, point_grid, x, y>>
hexVars == <<current_x, current_y, row_index>>
sketchVars == <<sketches, sketchPoints, hole_points, sketchLines, sketchArcs, drawn>>
profileVars == <<triangle_area, profiles, combined_profiles>>
designVars == <<edges, features>>
vars == <<pc, uiVars, gridVars, hexVars, sketchVars, profileVars, designVars, dialog,
          escaped>>

Init ==
  /\ cmd = "none" /\ pc = "idle"
  /\ defined = {} /\ limits = <<0, 0>> /\ nsel = 0
  /\ face = NoFace /\ inp = NoInputs /\ read = {}
  /\ sketches = 0
  /\ min_point = None /\ max_point = None
  /\ grid_width = 0 /\ grid_height = 0
  /\ point_grid = <<>>
  /\ sketchPoints = <<>> /\ hole_points = <<>> /\ sketchLines = <<>>
  /\ sketchArcs = 0 /\ drawn = <<>>
  /\ triangle_area = None /\ profiles = <<>> /\ combined_profiles = <<>>
  /\ edges = <<>> /\ features = <<>>
  /\ dialog = "none" /\ escaped = FALSE
  /\ x = 0 /\ y = 0
  /\ current_x = None /\ current_y = None /\ row_index = 0

\* command_created: the dialog's inputs and the selection limits
CommandCreated(c) ==
  /\ pc = "idle"
  /\ cmd' = c
  /\ defined' = CreatedIds(c)
  /\ limits' = SelectionLimits(c)
  /\ pc' = "dialog"
  /\ UNCHANGED <<nsel, face, inp, read, gridVars, hexVars, sketchVars, profileVars,
                 designVars, dialog, escaped>>

\* the user picks a face; the host refuses more than the upper limit
SelectFace ==
  /\ pc = "dialog"
  /\ nsel < limits[2]
  /\ \E f \in SelectableFaces(cmd) : face' = f
  /\ nsel' = nsel + 1
  /\ UNCHANGED <<cmd, pc, defined, limits, inp, read, gridVars, hexVars, sketchVars,
                 profileVars, designVars, dialog, escaped>>

\* the user presses OK, which the host allows once the selection is within
\* its limits: the execute event fires with the values of the dialog
ExecuteEvent ==
  /\ pc = "dialog"
  /\ limits[1] <= nsel /\ nsel <= limits[2]
  /\ \E v \in UserInputs(cmd) : inp' = v
  /\ pc' = "read"
  /\ UNCHANGED <<cmd, defined, limits, nsel, face, read, gridVars, hexVars, sketchVars,
                 profileVars, designVars, dialog, escaped>>

\* command_execute before its try: itemById(...).value for every input and
\* selection(0).entity.  itemById gives None for an id the dialog does not
\* hold and selection(0) raises without a selection; nothing catches that.
ReadInputs ==
  /\ pc = "read"
  /\ IF ExecIds(cmd) \subseteq defined /\ nsel >= 1
     THEN /\ read' = ExecIds(cmd)
          /\ pc' = "sketch"
          /\ escaped' = escaped
     ELSE /\ read' = ExecIds(cmd) \cap defined
          /\ pc' = "escaped"
          /\ escaped' = TRUE
  /\ UNCHANGED <<cmd, defined, limits, nsel, face, inp, gridVars, hexVars, sketchVars,
                 profileVars, designVars, dialog>>

\* a host call before the try raises (selection(0).entity, boundingBox)
ReadFails ==
  /\ pc = "read"
  /\ pc' = "escaped"
  /\ escaped' = TRUE
  /\ UNCHANGED <<uiVars, gridVars, hexVars, sketchVars, profileVars, designVars, dialog>>

\* where command_execute is inside its try
TryPcs ==
  {"sketch", "grid", "tri", "hexrow", "hexcol", "profiles", "extrude", "edges", "fillet",
   "holes", "msg"}

\* Fail without the except clause: the exception leaves command_execute
FailUncaught ==
  /\ pc \in TryPcs
  /\ pc' = "escaped"
  /\ escaped' = TRUE
  /\ UNCHANGED <<uiVars, gridVars, hexVars, sketchVars, profileVars, designVars, dialog>>

\* Fail with an except clause that deletes what the command made so far
FailRollsBack ==
  /\ pc \in TryPcs
  /\ pc' = "failed"
  /\ dialog' = "Failed"
  /\ sketches' = 0 /\ sketchPoints' = <<>> /\ sketchLines' = <<>> /\ sketchArcs' = 0
  /\ features' = <<>>
  /\ UNCHANGED <<uiVars, gridVars, hexVars, hole_points, drawn, profileVars, edges,
                 escaped>>

\* a host call inside the try raises: the except clause shows the message box
Fail ==
  /\ pc \in TryPcs
  /\ pc' = "failed"
  /\ dialog' = "Failed"
  /\ UNCHANGED <<uiVars, gridVars, hexVars, sketchVars, profileVars, designVars, escaped>>


GridIndices(w, h) == (0 .. w - 1) \X (0 .. h - 1)

\* triangle lattice: sketches.add, the bounding box in sketch space, the grid
\* size and the grid of None
AddSketch ==
  /\ pc = "sketch"
  /\ cmd \in TriangleCommands
  /\ sketches' = sketches + 1
  /\ LET bb == boundingBox(face)
         lo == modelToSketchSpace(face, bb.minPoint)
         hi == modelToSketchSpace(face, bb.maxPoint)
         w == grid_width_of(lo, hi, inp.size_input)
         h == grid_height_of(lo, hi, inp.size_input)
     IN /\ min_point' = lo
        /\ max_point' = hi
        /\ grid_width' = w
        /\ grid_height' = h
        /\ point_grid' = [i \in GridIndices(w, h) |-> 0]
  /\ x' = 0 /\ y' = 0
  /\ pc' = "grid"
  /\ UNCHANGED <<uiVars, hexVars, sketchPoints, hole_points, sketchLines, sketchArcs,
                 drawn, profileVars, designVars, dialog, escaped>>

\* the next index of "for x in range(w): for y in range(h)" after (x, y), or
\* <<w, 0>> when the loops are over
NextIndex(w, h) ==
  IF y + 1 < h THEN <<x, y + 1>>
  ELSE IF x + 1 < w THEN <<x + 1, 0>>
  ELSE <<w, 0>>

\* the hole_points.add of the grid loop, which only isogrid has
AddHolePoint(c, holes, sketch_point) ==
  IF c = "isogrid" THEN Append(holes, sketch_point) ELSE holes

\* StoreGridPoint without the isPointOnFace test
StoreGridPointAlways(grid, points, on_face) == [grid EXCEPT ![<<x, y>>] = Len(points) + 1]

\* the body of the grid loop for index (x, y): a sketch point is added when
\* the candidate is on the face
StoreGridPoint(grid, points, on_face) ==
  IF on_face THEN [grid EXCEPT ![<<x, y>>] = Len(points) + 1] ELSE grid

\* one iteration of the grid loop
GridStep ==
  /\ pc = "grid"
  /\ LET point == GridPoint(min_point, max_point, inp.size_input, x, y)
         on_face == isPointOnFace(face, sketchToModelSpace(face, point))
         nxt == NextIndex(grid_width, grid_height)
     IN /\ point_grid' = StoreGridPoint(point_grid, sketchPoints, on_face)
        /\ sketchPoints' = IF on_face THEN Append(sketchPoints, point) ELSE sketchPoints
        /\ hole_points' = IF on_face
                          THEN AddHolePoint(cmd, hole_points, Len(sketchPoints) + 1)
                          ELSE hole_points
        /\ IF nxt[1] < grid_width
           THEN /\ x' = nxt[1] /\ y' = nxt[2]
                /\ pc' = "grid"
           ELSE /\ x' = 0 /\ y' = 0
                /\ pc' = IF grid_width > 1 /\ grid_height > 1 THEN "tri" ELSE "profiles"
  /\ UNCHANGED <<uiVars, min_point, max_point, grid_width, grid_height, hexVars, sketches,
                 sketchLines, sketchArcs, drawn, profileVars, designVars, dialog, escaped>>

\* whether the three grid vertices of a triangle are all sketch points
AllPresent(grid, t) == grid[t[1]] # 0 /\ grid[t[2]] # 0 /\ grid[t[3]] # 0

\* the triangles of cell (cx, cy) that are drawn, in the order drawn: isogrid
\* tests the three points in draw_shrunken_triangle, hexgrid before calling it
TrianglesToDraw(grid, cx, cy) ==
  SelectSeq(CellTriangles(cx, cy), LAMBDA t : AllPresent(grid, t))

\* the new points of a triangle given by its grid vertices
ShrunkenPoints(c, grid, points, t, thickness) ==
  IF c = "isogrid"
  THEN new_points(points[grid[t[1]]], points[grid[t[2]]], points[grid[t[3]]], thickness)
  ELSE create_shrunken_triangle(points[grid[t[1]]], points[grid[t[2]]],
                                points[grid[t[3]]], thickness)

RECURSIVE LinesOf(_, _, _, _, _)
LinesOf(c, grid, points, ts, thickness) ==
  IF ts = <<>> THEN <<>>
  ELSE TriangleLines(ShrunkenPoints(c, grid, points, Head(ts), thickness))
         \o LinesOf(c, grid, points, Tail(ts), thickness)

\* hexgrid: triangle_area is set by the first triangle drawn
FirstArea(c, area, grid, points, ts, thickness) ==
  IF c = "hexgrid" /\ area = None /\ ts # <<>>
  THEN calculate_triangle_area(points[grid[ts[1][1]]], points[grid[ts[1][2]]],
                               points[grid[ts[1][3]]], thickness)
  ELSE area

\* one iteration of the triangle loop: the two triangles of cell (x, y)
TriStep ==
  /\ pc = "tri"
  /\ LET ts == TrianglesToDraw(point_grid, x, y)
         nxt == NextIndex(grid_width - 1, grid_height - 1)
     IN /\ sketchLines' =
             sketchLines \o LinesOf(cmd, point_grid, sketchPoints, ts, inp.thickness_input)
        /\ drawn' = drawn \o ts
        /\ triangle_area' = FirstArea(cmd, triangle_area, point_grid, sketchPoints, ts,
                                      inp.thickness_input)
        /\ IF nxt[1] < grid_width - 1
           THEN /\ x' = nxt[1] /\ y' = nxt[2]
                /\ pc' = "tri"
           ELSE /\ x' = 0 /\ y' = 0
                /\ pc' = "profiles"
  /\ UNCHANGED <<uiVars, min_point, max_point, grid_width, grid_height, point_grid,
                 hexVars, sketches, sketchPoints, hole_points, sketchArcs, profiles,
                 combined_profiles, designVars, dialog, escaped>>


(***************************************************************************)
(* sketch.profiles, as the host computes them once the cells are drawn:    *)
(* the region of the face left around the cells (cell 0) and one closed    *)
(* region per cell drawn.  The kernel's areas carry numerical noise.       *)
(***************************************************************************)
AreaNoise == {Zero, Frac(1, 2000000), Frac(-1, 2000000), Frac(1, 500000), Frac(-1, 500000)}

\* the corners of the i-th triangle drawn, from its three sketch lines
TriangleCorners(lines, i) == <<lines[3 * i - 2][1], lines[3 * i - 1][1], lines[3 * i][1]>>

TriangleProfiles(f, lines, ncells, noise) ==
  <<[cell |-> 0, area |-> Num(f.w * f.h)]>> \o
  [i \in 1 .. ncells |->
     [cell |-> i,
      area |-> Add(Shoelace(TriangleCorners(lines, i)), IF i % 2 = 1 THEN noise ELSE Zero)]]

\* the area the kernel reports for a hexagon of side size_input whose six
\* corners are filleted with radius r (pi taken as 22/7)
FilletedHexagonArea(size_input, r) ==
  Sub(hex_area_of(size_input),
      Mul(Mul(Num(6), Sq(r)), Sub(Div(Root3, Num(3)), Frac(11, 21))))

HexagonProfiles(f, ncells, size_input, r) ==
  <<[cell |-> 0, area |-> Num(f.w * f.h)]>> \o
  [i \in 1 .. ncells |-> [cell |-> i, area |-> FilletedHexagonArea(size_input, r)]]

\* the loop that fills combined_profiles
MatchingProfiles(ps, area) ==
  SelectSeq([i \in 1 .. Len(ps) |-> i], LAMBDA i : AreaMatches(ps[i].area, area))

\* triangle lattice: the profiles whose area is the shrunken triangle's.
\* isogrid takes the area from the closed form; hexgrid from the first
\* triangle drawn, and with no triangle drawn the subtraction from None raises.
SelectProfiles ==
  /\ pc = "profiles"
  /\ cmd \in TriangleCommands
  /\ \E noise \in AreaNoise :
       LET ps == TriangleProfiles(face, sketchLines, Len(drawn), noise)
           area == IF cmd = "isogrid"
                   THEN closed_form_area(inp.size_input, inp.thickness_input)
                   ELSE triangle_area
       IN /\ profiles' = ps
          /\ triangle_area' = area
          /\ IF area = None
             THEN /\ combined_profiles' = <<>>
                  /\ pc' = "failed"
                  /\ dialog' = "Failed"
             ELSE /\ combined_profiles' = MatchingProfiles(ps, area)
                  /\ pc' = "extrude"
                  /\ dialog' = dialog
  /\ UNCHANGED <<uiVars, gridVars, hexVars, sketchVars, designVars, escaped>>

Feature(kind, items, size, depth) ==
  [kind |-> kind, items |-> items, size |-> size, depth |-> depth]

\* the profiles the cut extrude is created from
ExtrudeProfiles(c, combined) == combined

\* triangle lattice: the cut extrude, when a profile was collected;
\* honeycomb: the cut extrude of prof
CutExtrude ==
  /\ pc = "extrude"
  /\ features' =
       IF cmd \in TriangleCommands /\ combined_profiles = <<>> THEN features
       ELSE Append(features, Feature("cut", ExtrudeProfiles(cmd, combined_profiles), Zero,
                                     Neg(inp.height_input)))
  /\ pc' = IF cmd \in TriangleCommands THEN "edges" ELSE "msg"
  /\ UNCHANGED <<uiVars, gridVars, hexVars, sketchVars, profileVars, edges, dialog,
                 escaped>>

\* the edges the cut adds to the body: every pocket has a vertical edge under
\* each corner of its triangle and three edges around its floor
PocketEdges(f, lines, cut, depth) ==
  LET down(p) == [startVertex |-> <<p[1], p[2], Zero>>, endVertex |-> <<p[1], p[2], depth>>]
      floor(p, q) == [startVertex |-> <<p[1], p[2], depth>>, endVertex |-> <<q[1], q[2], depth>>]
      cornerOf(j, k) == sketchToModelSpace(f, TriangleCorners(lines, j)[k])
  IN [n \in 1 .. 6 * Len(cut) |->
        LET j == cut[((n - 1) \div 6) + 1]
            k == ((n - 1) % 6) + 1
        IN IF k <= 3 THEN down(cornerOf(j, k))
           ELSE floor(cornerOf(j, k - 3), cornerOf(j, ((k - 3) % 3) + 1))]

\* Point3D.isEqualTo
isEqualTo(p, q) == p = q

\* the test of the edge loop: not degenerate, and start and end agree in x and y
IsVerticalEdge(e) ==
  /\ ~isEqualTo(e.startVertex, e.endVertex)
  /\ Less(Abs(Sub(e.startVertex[1], e.endVertex[1])), Tolerance)
  /\ Less(Abs(Sub(e.startVertex[2], e.endVertex[2])), Tolerance)

\* the cells whose profile the cut removed
CutCells(ps, fs) ==
  IF fs = <<>> THEN <<>>
  ELSE [k \in 1 .. Len(fs[1].items) |-> ps[fs[1].items[k]].cell]

\* triangle lattice: the vertical edges of the body
CollectEdges ==
  /\ pc = "edges"
  /\ edges' = SelectSeq(bodyEdges(face)
                          \o PocketEdges(face, sketchLines, CutCells(profiles, features),
                                         Neg(inp.height_input)),
                        IsVerticalEdge)
  /\ pc' = "fillet"
  /\ UNCHANGED <<uiVars, gridVars, hexVars, sketchVars, profileVars, features, dialog,
                 escaped>>

\* whether the command builds the fillet: isogrid asks for an edge, hexgrid
\* does not
BuildsFillet(c, es) == IF c = "isogrid" THEN es # <<>> ELSE TRUE

\* triangle lattice: the fillet of the vertical edges
Fillet ==
  /\ pc = "fillet"
  /\ features' = IF BuildsFillet(cmd, edges)
                 THEN Append(features, Feature("fillet", edges, inp.fillet_radius_input, Zero))
                 ELSE features
  /\ pc' = IF cmd = "isogrid" THEN "holes" ELSE "msg"
  /\ UNCHANGED <<uiVars, gridVars, hexVars, sketchVars, profileVars, edges, dialog,
                 escaped>>

\* HoleFeature with diameter and depth exchanged
HoleFeatureSwapped(holes, values) ==
  Feature("hole", holes, values.height_input, values.hole_size_input)

\* isogrid: the hole feature on hole_points
HoleFeature(holes, values) ==
  Feature("hole", holes, values.hole_size_input, values.height_input)

\* isogrid: the holes, when a grid point is on the face
Holes ==
  /\ pc = "holes"
  /\ features' = IF hole_points # <<>>
                 THEN Append(features, HoleFeature(hole_points, inp))
                 ELSE features
  /\ pc' = "msg"
  /\ UNCHANGED <<uiVars, gridVars, hexVars, sketchVars, profileVars, edges, dialog,
                 escaped>>

\* the message box that ends the try
Success ==
  /\ pc = "msg"
  /\ dialog' = "Created"
  /\ pc' = "done"
  /\ UNCHANGED <<uiVars, gridVars, hexVars, sketchVars, profileVars, designVars, escaped>>


(***************************************************************************)
(* The honeycomb command (commandDialog)                                   *)
(***************************************************************************)
\* min(m, a) and max(m, a) where m starts as float('inf') / float('-inf'),
\* written None here
PyMin(m, a) == IF m = None THEN a ELSE IF Less(a, m) THEN a ELSE m
PyMax(m, a) == IF m = None THEN a ELSE IF Less(m, a) THEN a ELSE m

RECURSIVE BoundsOf(_, _)
\* the loop over the profile curves: b is <<min_x, min_y, max_x, max_y>>
BoundsOf(curves, b) ==
  IF curves = <<>> THEN b
  ELSE LET start_point == Head(curves)[1]
           end_point == Head(curves)[2]
       IN BoundsOf(Tail(curves),
                   <<PyMin(PyMin(b[1], start_point[1]), end_point[1]),
                     PyMin(PyMin(b[2], start_point[2]), end_point[2]),
                     PyMax(PyMax(b[3], start_point[1]), end_point[1]),
                     PyMax(PyMax(b[4], start_point[2]), end_point[2])>>)

\* honeycomb: sketches.add and the bounding points of the sketch's profiles
AddSketchHoneycomb ==
  /\ pc = "sketch"
  /\ cmd = "commandDialog"
  /\ sketches' = sketches + 1
  /\ LET b == BoundsOf(outlineCurves(face), <<None, None, None, None>>)
     IN /\ min_point' = <<b[1], b[2]>>
        /\ max_point' = <<b[3], b[4]>>
        /\ current_y' = b[2]
  /\ row_index' = 0
  /\ pc' = "hexrow"
  /\ UNCHANGED <<uiVars, grid_width, grid_height, point_grid, x, y, current_x,
                 sketchPoints, hole_points, sketchLines, sketchArcs, drawn, profileVars,
                 designVars, dialog, escaped>>

\* the test of the outer while and the start of a row
HexRow ==
  /\ pc = "hexrow"
  /\ IF Less(current_y, max_point[2])
     THEN /\ current_x' = RowStartX(min_point[1], row_index, inp.size_input,
                                    inp.thickness_input)
          /\ pc' = "hexcol"
     ELSE /\ current_x' = current_x
          /\ pc' = "profiles"
  /\ UNCHANGED <<uiVars, gridVars, current_y, row_index, sketchVars, profileVars,
                 designVars, dialog, escaped>>

\* the test of the inner while: one hexagon with its six lines and six
\* fillets, or the step to the next row
HexCol ==
  /\ pc = "hexcol"
  /\ IF Less(current_x, max_point[1])
     THEN LET h == HexagonPoints(current_x, current_y, inp.size_input)
          IN /\ sketchLines' = sketchLines \o HexagonLines(h)
             /\ sketchArcs' = sketchArcs + 6
             /\ drawn' = Append(drawn, h)
             /\ current_x' = NextColumnX(current_x, inp.size_input, inp.thickness_input)
             /\ UNCHANGED <<current_y, row_index, pc>>
     ELSE /\ current_y' = NextRowY(current_y, inp.size_input, inp.thickness_input)
          /\ row_index' = row_index + 1
          /\ pc' = "hexrow"
          /\ UNCHANGED <<sketchLines, sketchArcs, drawn, current_x>>
  /\ UNCHANGED <<uiVars, gridVars, sketches, sketchPoints, hole_points, profileVars,
                 designVars, dialog, escaped>>

\* max(candidates, key = area): the first candidate of the largest area
FirstLargest(ps, candidates) ==
  CHOOSE i \in candidates :
    /\ \A j \in candidates : Leq(ps[j].area, ps[i].area)
    /\ \A j \in candidates : (ps[j].area = ps[i].area) => i <= j

\* honeycomb: prof, the largest profile smaller than a hexagon; max() of no
\* profile raises
SelectProf ==
  /\ pc = "profiles"
  /\ cmd = "commandDialog"
  /\ LET ps == HexagonProfiles(face, Len(drawn), inp.size_input, inp.fillet_radius_input)
         hex_area == hex_area_of(inp.size_input)
         candidates == {i \in 1 .. Len(ps) : Less(ps[i].area, hex_area)}
     IN /\ profiles' = ps
        /\ IF candidates = {}
           THEN /\ combined_profiles' = <<>>
                /\ pc' = "failed"
                /\ dialog' = "Failed"
           ELSE /\ combined_profiles' = <<FirstLargest(ps, candidates)>>
                /\ pc' = "extrude"
                /\ dialog' = dialog
  /\ UNCHANGED <<uiVars, gridVars, hexVars, sketchVars, triangle_area, designVars,
                 escaped>>

Next ==
  \/ \E c \in Commands : CommandCreated(c)
  \/ SelectFace
  \/ ExecuteEvent
  \/ ReadInputs
  \/ ReadFails
  \/ AddSketch
  \/ GridStep
  \/ TriStep
  \/ SelectProfiles
  \/ AddSketchHoneycomb
  \/ HexRow
  \/ HexCol
  \/ SelectProf
  \/ CutExtrude
  \/ CollectEdges
  \/ Fillet
  \/ Holes
  \/ Success
  \/ Fail

Spec == Init /\ [][Next]_vars


(***************************************************************************)
(* Properties                                                              *)
(***************************************************************************)
\* where a triangle-lattice command is once its grid loop is over
AfterGrid == {"tri", "profiles", "extrude", "edges", "fillet", "holes", "msg", "done"}
\* ... and once its triangle loop is over
AfterTriangles == AfterGrid \ {"tri"}

InTriangleCommand == cmd \in TriangleCommands /\ DOMAIN point_grid # {}

\* the candidate point of grid index i, and the host's answer for it
Candidate(i) == GridPoint(min_point, max_point, inp.size_input, i[1], i[2])
HostSaysOnFace(i) == isPointOnFace(face, sketchToModelSpace(face, Candidate(i)))

\* whether the grid loop has passed index i
Visited(i) == pc \in AfterGrid \/ (pc = "grid" /\ (i[1] < x \/ (i[1] = x /\ i[2] < y)))

CutFeatures == {k \in 1 .. Len(features) : features[k].kind = "cut"}
HoleFeatures == {k \in 1 .. Len(features) : features[k].kind = "hole"}
Range(s) == {s[k] : k \in 1 .. Len(s)}

\* C1, as stated: every failure of command_execute, the reading of the
\* dialog's inputs and of the selected face included, ends in the 'Failed'
\* message box and none leaves command_execute.
C1_EveryFailureIsReported ==
  /\ escaped = FALSE
  /\ pc = "failed" => dialog = "Failed"

\* C1, amended: a failure inside the try (from sketches.add to the closing
\* message box) is caught and ends in the 'Failed' message box without
\* leaving command_execute; an exception leaves command_execute only from the
\* reads that precede the try, and then no message box is shown.
C1_FailuresInTryAreReported ==
  [][/\ (pc \in TryPcs /\ pc' \notin TryPcs /\ pc' # "done")
          => (pc' = "failed" /\ dialog' = "Failed" /\ escaped' = FALSE)
     /\ (escaped' /\ ~escaped) => (pc = "read" /\ dialog' = "none")]_vars

C1_Witness == pc = "failed" /\ dialog = "Failed" /\ features # <<>> /\ ~escaped

\* C2: in both triangle-lattice commands a grid index the loop has passed
\* holds a sketch point exactly when the host reports its candidate point on
\* the face; the sketch point is the candidate; an index whose candidate is
\* off the face stays None, and no other sketch point is added.
C2_GridHoldsExactlyFacePoints ==
  InTriangleCommand =>
    /\ DOMAIN point_grid = GridIndices(grid_width, grid_height)
    /\ \A i \in DOMAIN point_grid :
         /\ point_grid[i] # 0 =>
              /\ HostSaysOnFace(i)
              /\ point_grid[i] \in 1 .. Len(sketchPoints)
              /\ sketchPoints[point_grid[i]] = Candidate(i)
         /\ (Visited(i) /\ HostSaysOnFace(i)) => point_grid[i] # 0
    /\ Len(sketchPoints) = Cardinality({i \in DOMAIN point_grid : point_grid[i] # 0})

C2_Witness ==
  /\ InTriangleCommand /\ pc = "tri"
  /\ \E i, j \in DOMAIN point_grid : point_grid[i] = 0 /\ point_grid[j] # 0

\* the grid indices that hold a sketch point, and the point's place
Present == {i \in DOMAIN point_grid : point_grid[i] # 0}
Place(i) == sketchPoints[point_grid[i]]
Lower(i, j) == i[1] < j[1] \/ (i[1] = j[1] /\ i[2] < j[2])
Near(p, q) == Dist2(p, q) = Sq(inp.size_input)

\* the unit triangles of the staggered grid whose vertices are all present:
\* three sketch points of which any two are at distance size_input
PresentUnitTriangles ==
  UNION {{{pr[1], pr[2], k} :
            k \in {k \in Present : /\ Lower(pr[2], k)
                                   /\ Near(Place(pr[1]), Place(k))
                                   /\ Near(Place(pr[2]), Place(k))}} :
           pr \in {pr \in Present \X Present :
                     Lower(pr[1], pr[2]) /\ Near(Place(pr[1]), Place(pr[2]))}}

Vertices(t) == {t[1], t[2], t[3]}

\* C3: every triangle drawn has its three grid vertices present and pairwise
\* at distance size_input (a unit triangle of the staggered grid), no two
\* triangles drawn have the same vertices, and each is drawn with three
\* lines; when the triangle loop ends, the triangles drawn are exactly the
\* unit triangles whose vertices are all present.
C3_DrawnAreTheUnitTriangles ==
  InTriangleCommand =>
    /\ \A k \in 1 .. Len(drawn) :
         /\ \A v \in Vertices(drawn[k]) : point_grid[v] # 0
         /\ Cardinality(Vertices(drawn[k])) = 3
         /\ \A m, n \in 1 .. 3 :
              m < n => Near(Place(drawn[k][m]), Place(drawn[k][n]))
         /\ \A m \in 1 .. Len(drawn) : Vertices(drawn[m]) = Vertices(drawn[k]) => m = k
    /\ Len(sketchLines) = 3 * Len(drawn)
    /\ pc = "profiles" =>
         {Vertices(drawn[k]) : k \in 1 .. Len(drawn)} = PresentUnitTriangles

\* a unit triangle of the grid with a vertex off the face
C3_Witness ==
  /\ InTriangleCommand /\ pc = "profiles"
  /\ Len(drawn) >= 2
  /\ \E i, j, k \in DOMAIN point_grid :
       /\ point_grid[i] = 0 /\ point_grid[j] # 0 /\ point_grid[k] # 0
       /\ Near(Candidate(i), Candidate(j))
       /\ Near(Candidate(i), Candidate(k))
       /\ Near(Candidate(j), Candidate(k))

\* the grid vertex a corner of the k-th triangle drawn started from
GridVertex(k, n) == sketchPoints[point_grid[drawn[k][n]]]
\* the three grid vertices of the k-th triangle drawn
GridVertices(k) == <<GridVertex(k, 1), GridVertex(k, 2), GridVertex(k, 3)>>

\* C4: each corner of a triangle drawn is its grid vertex moved straight
\* towards the centroid of the three grid vertices by the distance
\* thickness_input, and the three lines run corner 1 - corner 2 - corner 3 -
\* corner 1.
C4_CornersMoveByThickness ==
  InTriangleCommand =>
    \A k \in 1 .. Len(drawn) :
      LET P == GridVertices(k)
          N == TriangleCorners(sketchLines, k)
          c == <<Div(Add(Add(P[1][1], P[2][1]), P[3][1]), Num(3)),
                 Div(Add(Add(P[1][2], P[2][2]), P[3][2]), Num(3))>>
      IN /\ \A n \in 1 .. 3 :
              /\ Cross(PSub(N[n], P[n]), PSub(c, P[n])) = Zero
              /\ Sign(Dot(PSub(N[n], P[n]), PSub(c, P[n]))) > 0
              /\ Dist2(N[n], P[n]) = Sq(inp.thickness_input)
         /\ sketchLines[3 * k - 2] = <<N[1], N[2]>>
         /\ sketchLines[3 * k - 1] = <<N[2], N[3]>>
         /\ sketchLines[3 * k] = <<N[3], N[1]>>

C4_Witness ==
  /\ cmd = "hexgrid" /\ Len(drawn) >= 2
  /\ inp.thickness_input = Num(2) /\ inp.size_input = Num(3)


\* the corner of the k-th triangle drawn that started from grid index v
CornerAt(k, v) ==
  TriangleCorners(sketchLines, k)[CHOOSE n \in 1 .. 3 : drawn[k][n] = v]

\* 0 < thickness_input < size_input / sqrt(3)
WebPrecondition ==
  /\ Less(Zero, inp.thickness_input)
  /\ Less(Mul(inp.thickness_input, Root3), inp.size_input)

\* C5: for 0 < thickness_input < size_input / sqrt(3), two triangles drawn
\* from cells that share a grid edge A-B leave a web of width thickness_input
\* between them: each one's side along the edge is parallel to A-B at distance
\* thickness_input / 2 from it, the two on opposite sides, and the corners
\* that started from the same grid vertex face each other across the web at
\* distance thickness_input.
C5_WebHasWallThickness ==
  (InTriangleCommand /\ WebPrecondition) =>
    \A k, m \in 1 .. Len(drawn) :
      (k < m /\ Cardinality(Vertices(drawn[k]) \cap Vertices(drawn[m])) = 2) =>
        \A a, b \in Vertices(drawn[k]) \cap Vertices(drawn[m]) :
          a # b =>
            LET edge == PSub(Place(b), Place(a))
                ak == CornerAt(k, a)
                am == CornerAt(m, a)
                t == inp.thickness_input
            IN /\ Cross(PSub(CornerAt(k, b), ak), edge) = Zero
               /\ Cross(PSub(CornerAt(m, b), am), edge) = Zero
               /\ Sq(Cross(edge, PSub(ak, Place(a)))) = Mul(Sq(Half(t)), Dot(edge, edge))
               /\ Sq(Cross(edge, PSub(am, Place(a)))) = Mul(Sq(Half(t)), Dot(edge, edge))
               /\ Sign(Cross(edge, PSub(ak, Place(a))))
                    = -Sign(Cross(edge, PSub(am, Place(a))))
               /\ Dot(PSub(am, ak), edge) = Zero
               /\ Dist2(ak, am) = Sq(t)

C5_Witness ==
  /\ InTriangleCommand /\ WebPrecondition
  /\ \E k, m \in 1 .. Len(drawn) :
       k < m /\ Cardinality(Vertices(drawn[k]) \cap Vertices(drawn[m])) = 2

\* where a triangle-lattice command is once the cut extrude is decided
AfterExtrude == {"edges", "fillet", "holes", "msg", "done"}

\* the profiles whose area is within 1e-6 of the area of the shrunken
\* triangles drawn
ProfilesOfShrunkenArea ==
  IF drawn = <<>> THEN {}
  ELSE LET a == Shoelace(TriangleCorners(sketchLines, 1))
       IN {j \in 1 .. Len(profiles) :
             /\ Less(Sub(profiles[j].area, a), Tolerance)
             /\ Less(Sub(a, profiles[j].area), Tolerance)}

\* C6: in both triangle-lattice commands the cut extrude is created from
\* exactly the profiles whose area is within 1e-6 of the shrunken triangle's,
\* each once; no cut extrude is created when there is no such profile.
C6_CutTakesProfilesOfTriangleArea ==
  (InTriangleCommand /\ pc \in AfterExtrude) =>
    /\ Cardinality(CutFeatures) <= 1
    /\ CutFeatures = {} => ProfilesOfShrunkenArea = {}
    /\ \A k \in CutFeatures :
         /\ Range(features[k].items) = ProfilesOfShrunkenArea
         /\ Len(features[k].items) = Cardinality(ProfilesOfShrunkenArea)
         /\ features[k].items # <<>>

\* a cut that takes some triangles' profiles and leaves others and the outline
C6_Witness ==
  /\ InTriangleCommand /\ pc \in AfterExtrude
  /\ \E k \in CutFeatures :
       /\ Len(features[k].items) >= 2
       /\ \E j \in 1 .. Len(profiles) :
            profiles[j].cell # 0 /\ j \notin Range(features[k].items)

\* C7: after a successful run of the honeycomb command every hexagon drawn is
\* cut: the cut extrude holds the profile of each cell, with depth height_input.
C7_EveryHexagonIsCut ==
  (cmd = "commandDialog" /\ pc = "done") =>
    \A i \in 1 .. Len(drawn) :
      \E k \in CutFeatures :
        /\ features[k].depth = Neg(inp.height_input)
        /\ \E j \in Range(features[k].items) : profiles[j].cell = i

\* C8: when a step inside the try fails, the sketch with its points, lines
\* and arcs and the features created so far stay as they are and the 'Failed'
\* message box is shown; after that nothing more is created and the message
\* box stays.
C8_FailureLeavesTheDesign ==
  [][/\ (pc \in TryPcs /\ pc' = "failed")
          => (/\ sketchVars' = sketchVars
              /\ features' = features
              /\ dialog' = "Failed")
     /\ pc = "failed"
          => (/\ pc' = "failed"
              /\ sketchVars' = sketchVars
              /\ features' = features
              /\ dialog' = dialog)]_vars

C8_Witness ==
  /\ pc = "failed" /\ dialog = "Failed"
  /\ sketches = 1 /\ sketchLines # <<>> /\ Len(features) = 2

\* where command_execute is once it has read the dialog
AfterRead == TryPcs \cup {"failed", "done"}

\* C9: when the execute event fires exactly one face is selected and the
\* dialog holds every id command_execute reads; past the reads, the ids read
\* are the ids of the command, all defined by its command_created, and the
\* selection still holds that one face.
C9_ExecuteReadsDefinedInputs ==
  /\ pc = "read" => (nsel = 1 /\ face \in Faces /\ ExecIds(cmd) \subseteq defined)
  /\ pc \in AfterRead =>
       /\ read = ExecIds(cmd)
       /\ read \subseteq defined
       /\ nsel = 1 /\ face \in Faces
  /\ pc = "escaped" => read \subseteq defined

C9_Witness == pc = "sketch" /\ cmd = "isogrid" /\ "hole_size_input" \in read /\ nsel = 1

\* C10: in the isogrid command hole_points holds exactly the sketch points of
\* point_grid, each once; a hole feature is created only from a non-empty
\* hole_points, with diameter hole_size_input and depth height_input on
\* exactly those points, and a finished run with a point on the face has it.
C10_HolesOnTheGridPoints ==
  cmd = "isogrid" =>
    /\ Range(hole_points) = {point_grid[i] : i \in Present}
    /\ Len(hole_points) = Cardinality(Present)
    /\ Cardinality(HoleFeatures) <= 1
    /\ \A k \in HoleFeatures :
         /\ hole_points # <<>>
         /\ features[k].items = hole_points
         /\ features[k].size = inp.hole_size_input
         /\ features[k].depth = inp.height_input
    /\ pc \in {"msg", "done"} => (HoleFeatures # {} <=> hole_points # <<>>)

C10_Witness ==
  /\ cmd = "isogrid" /\ pc = "done"
  /\ HoleFeatures # {} /\ Len(hole_points) >= 2
  /\ \E i \in DOMAIN point_grid : point_grid[i] = 0


\* C11: for every cell triangle drawn, by either triangle-lattice command, the
\* shoelace area that calculate_triangle_area computes from its three grid
\* vertices and thickness_input equals the closed form
\* sqrt(3)*size^2/4 + 3*sqrt(3)*thickness^2/4 - 3*size*thickness/2 of isogrid;
\* the area hexgrid keeps from its first triangle is that same value.
C11_ClosedFormIsShoelaceArea ==
  InTriangleCommand =>
    LET closed == closed_form_area(inp.size_input, inp.thickness_input)
    IN /\ \A k \in 1 .. Len(drawn) :
            LET P == GridVertices(k)
            IN calculate_triangle_area(P[1], P[2], P[3],
                                       inp.thickness_input) = closed
       /\ (cmd = "hexgrid" /\ triangle_area # None) => triangle_area = closed
       /\ (cmd = "isogrid" /\ triangle_area # None) => triangle_area = closed

C11_Witness ==
  /\ cmd = "hexgrid" /\ pc = "profiles"
  /\ Len(drawn) >= 2
  /\ triangle_area # None
  /\ inp.thickness_input = Num(2)
  /\ \E k \in 1 .. Len(drawn) : drawn[k] # drawn[1] /\ GridVertex(k, 1) # GridVertex(1, 1)


\* the honeycomb command has computed its bounding box
InHoneycomb == cmd = "commandDialog" /\ min_point # None /\ max_point # None

\* C12: every corner of every hexagon the honeycomb command has drawn lies in
\* the bounding box [min_x, max_x] x [min_y, max_y] of the sketch profiles.
C12_HexagonsInsideBoundingBox ==
  InHoneycomb =>
    \A i \in 1 .. Len(drawn) :
      \A n \in 1 .. 6 :
        /\ Leq(min_point[1], drawn[i][n][1]) /\ Leq(drawn[i][n][1], max_point[1])
        /\ Leq(min_point[2], drawn[i][n][2]) /\ Leq(drawn[i][n][2], max_point[2])


\* the lower-left reference (current_x, current_y) of the i-th hexagon drawn
HexX(i) == drawn[i][6][1]
HexY(i) == drawn[i][1][2]

\* j is the next hexagon to the right of i in the same row
NextInRow(i, j) ==
  /\ HexY(i) = HexY(j) /\ Less(HexX(i), HexX(j))
  /\ ~\E k \in 1 .. Len(drawn) :
        HexY(k) = HexY(i) /\ Less(HexX(i), HexX(k)) /\ Less(HexX(k), HexX(j))

\* j is the next hexagon straight above i (two rows apart)
NextAbove(i, j) ==
  /\ HexX(i) = HexX(j) /\ Less(HexY(i), HexY(j))
  /\ ~\E k \in 1 .. Len(drawn) :
        HexX(k) = HexX(i) /\ Less(HexY(i), HexY(k)) /\ Less(HexY(k), HexY(j))

\* j lies in the row following the row of i and overlaps i in x: the
\* staggered neighbour, to the right or to the left
Staggered(i, j) ==
  /\ Less(HexY(i), HexY(j))
  /\ ~\E k \in 1 .. Len(drawn) : Less(HexY(i), HexY(k)) /\ Less(HexY(k), HexY(j))
  /\ HexX(i) # HexX(j)
  /\ Less(Abs(Sub(HexX(j), HexX(i))), Mul(Num(2), inp.size_input))

\* the distance between the two parallel facing edges of staggered neighbours
StaggeredWall(i, j) ==
  LET g == drawn[i]
      h == drawn[j]
  IN IF Less(HexX(i), HexX(j))
     THEN Div(Abs(Cross(PSub(g[4], g[3]), PSub(h[6], g[4]))), inp.size_input)
     ELSE Div(Abs(Cross(PSub(g[6], g[5]), PSub(h[2], g[5]))), inp.size_input)

\* the normals of the three edge directions of the hexagons
HexagonAxes == {<<Zero, Num(1)>>, <<Root3, Num(1)>>, <<Root3, Num(-1)>>}

\* two hexagons, convex and of the same orientation, do not overlap when one
\* of the three edge normals separates their corners
Separated(g, h) ==
  \E axis \in HexagonAxes :
    \/ \A a \in 1 .. 6, b \in 1 .. 6 : Leq(Dot(g[a], axis), Dot(h[b], axis))
    \/ \A a \in 1 .. 6, b \in 1 .. 6 : Leq(Dot(h[b], axis), Dot(g[a], axis))

C13_NoOverlap ==
  InHoneycomb =>
    \A i, j \in 1 .. Len(drawn) : i < j => Separated(drawn[i], drawn[j])

C13_WallInRow ==
  InHoneycomb =>
    \A i, j \in 1 .. Len(drawn) :
      NextInRow(i, j) => Sub(drawn[j][6][1], drawn[i][3][1]) = inp.thickness_input

C13_WallAbove ==
  InHoneycomb =>
    \A i, j \in 1 .. Len(drawn) :
      NextAbove(i, j) => Sub(drawn[j][1][2], drawn[i][5][2]) = inp.thickness_input

C13_WallStaggered ==
  InHoneycomb =>
    \A i, j \in 1 .. Len(drawn) :
      Staggered(i, j) => StaggeredWall(i, j) = inp.thickness_input

\* C13: no two hexagons drawn by the honeycomb command overlap, and the wall
\* between neighbouring hexagons has the width thickness_input: between
\* neighbours in a row, between staggered neighbours of consecutive rows, and
\* between hexagons two rows apart.
C13_HexagonsSpacedByThickness ==
  /\ C13_NoOverlap
  /\ C13_WallInRow
  /\ C13_WallAbove
  /\ C13_WallStaggered


FilletFeatures == {k \in 1 .. Len(features) : features[k].kind = "fillet"}
AfterFillet == {"holes", "msg", "done"}

\* C14: in isogrid and hexgrid a fillet feature is created only from a
\* collection of at least one vertical edge; when the edge loop has collected
\* no edge, the command goes on without a fillet feature.
C14_FilletOnlyWithEdges ==
  cmd \in TriangleCommands =>
    /\ \A k \in FilletFeatures :
         /\ features[k].items # <<>>
         /\ \A n \in 1 .. Len(features[k].items) : IsVerticalEdge(features[k].items[n])
    /\ (pc \in AfterFillet /\ edges = <<>>) => FilletFeatures = {}


\* C15: in isogrid and hexgrid, once the profiles of the sketch have been
\* read, the area they are compared with is a number, also when no triangle
\* was drawn; with no triangle drawn only the outline can be among the
\* profiles selected, and the selection has not ended the command in the
\* 'Failed' message box.
C15_ProfileSelectionNeverRaises ==
  (cmd \in TriangleCommands /\ profiles # <<>>) =>
    /\ triangle_area # None
    /\ drawn = <<>> => \A j \in Range(combined_profiles) : profiles[j].cell = 0
    /\ ~(pc = "failed" /\ dialog = "Failed" /\ triangle_area = None)


====
